---- MODULE Spec2Model ----
(***************************************************************************)
(* encrust: an obfuscation container (Encrusted), its scoped exposure      *)
(* guard (Decrusted) and the recursive toggle (Encrustable), in both       *)
(* generations of the crate:                                               *)
(*   "fast"   crates/encrust-core  (u64 seed, SmallRng keystream)          *)
(*   "crypto" encrust-core         (Key + XNonce, XChaCha8 keystream)      *)
(***************************************************************************)
EXTENDS Integers, Sequences, FiniteSets, TLC

\* The number of exposures of a container that is explored.
MaxExposures == 2

\* The number of comparisons with a fingerprint that is explored.
MaxCompares == 2

-----------------------------------------------------------------------------
(* Bytes and XOR                                                           *)

RECURSIVE BitXor(_, _)
\* Bitwise exclusive or of two naturals.
BitXor(a, b) ==
    IF a = 0 THEN b
    ELSE IF b = 0 THEN a
    ELSE ((a + b) % 2) + 2 * BitXor(a \div 2, b \div 2)

\* BitXor on bytes, tabulated.
XorTable == [a \in 0..255 |-> [b \in 0..255 |-> BitXor(a, b)]]

\* Mutant of Xor: the key byte is added to the data byte.
Xor_add(a, b) == (a + b) % 256

\* `*byte ^= byte_key` on two u8.
Xor(a, b) == XorTable[a][b]

Reverse(s) == [i \in 1..Len(s) |-> s[Len(s) + 1 - i]]

Min(a, b) == IF a < b THEN a ELSE b

-----------------------------------------------------------------------------
(* Keystream engines.  Both generators are external crates; what the toggle *)
(* uses of them is the byte stream they produce from the key material.      *)

\* The seeds the model draws from (u64 values, written as text).
\*   0x2357bd1113171d1f is tests::get_seed; 185 and 833 are two seeds
\*   whose first output byte is 0.
Seeds == {"0x2357bd1113171d1f", "185", "833"}

\* The first 128 bytes SmallRng::seed_from_u64(seed).fill_bytes produces
\* (xoshiro256++ seeded through SplitMix64, outputs written little-endian);
\* the generator reproduces tests::ensure_encrust_has_not_changed.
SmallRngTable ==
    [seed \in {"0x2357bd1113171d1f", "185", "833", "5233902475398815152"} |->
       CASE seed = "0x2357bd1113171d1f" ->
                 <<100, 237, 69, 167, 67, 66, 7, 221, 102, 212, 87, 108, 133, 29, 74, 105,
                13, 175, 133, 3, 49, 189, 175, 24, 78, 83, 19, 195, 211, 88, 57, 171,
                233, 9, 226, 10, 245, 239, 37, 142, 133, 201, 173, 125, 115, 92, 233, 100,
                246, 241, 94, 182, 81, 158, 16, 181, 220, 7, 106, 83, 241, 87, 154, 46,
                39, 158, 98, 227, 169, 81, 232, 160, 174, 69, 240, 190, 90, 20, 130, 1,
                213, 11, 120, 123, 197, 87, 41, 154, 51, 0, 206, 162, 245, 214, 161, 173,
                111, 212, 28, 101, 247, 184, 21, 120, 75, 72, 195, 239, 182, 70, 171, 199,
                19, 43, 125, 114, 8, 241, 218, 215, 146, 101, 142, 27, 10, 206, 216, 28>>
         [] seed = "185" ->
                 <<0, 176, 193, 11, 72, 48, 86, 91, 227, 135, 34, 48, 240, 152, 218, 214,
                13, 111, 60, 82, 146, 202, 43, 37, 165, 53, 26, 192, 111, 130, 49, 139,
                35, 82, 1, 177, 45, 163, 217, 74, 178, 190, 82, 21, 132, 51, 214, 46,
                80, 1, 93, 169, 117, 170, 9, 115, 191, 44, 15, 30, 158, 98, 76, 28,
                115, 59, 221, 219, 87, 228, 180, 118, 162, 107, 29, 137, 25, 159, 37, 132,
                154, 72, 0, 90, 77, 90, 200, 168, 29, 105, 21, 139, 11, 2, 130, 111,
                235, 74, 73, 232, 149, 54, 166, 59, 243, 193, 176, 243, 128, 182, 130, 135,
                24, 34, 42, 35, 192, 80, 34, 103, 4, 228, 255, 52, 43, 28, 224, 200>>
         [] seed = "833" ->
                 <<0, 122, 20, 225, 90, 142, 154, 33, 156, 54, 129, 102, 60, 12, 38, 9,
                25, 63, 203, 147, 66, 105, 26, 6, 16, 76, 167, 57, 212, 27, 5, 209,
                31, 15, 118, 19, 211, 159, 157, 5, 122, 171, 227, 29, 127, 154, 162, 150,
                117, 190, 137, 177, 211, 204, 191, 79, 100, 229, 83, 217, 248, 145, 237, 232,
                251, 46, 48, 90, 40, 39, 178, 195, 126, 247, 92, 91, 232, 255, 154, 69,
                99, 80, 167, 147, 109, 140, 130, 253, 186, 47, 121, 36, 125, 228, 33, 47,
                60, 195, 61, 73, 161, 71, 115, 245, 249, 22, 120, 233, 44, 126, 39, 200,
                64, 61, 220, 121, 121, 128, 119, 204, 77, 82, 220, 86, 183, 196, 184, 98>>
         [] seed = "5233902475398815152" ->
                 <<99, 98, 70, 126, 243, 36, 166, 130, 43, 49, 237, 60, 48, 187, 92, 151,
                80, 214, 67, 18, 201, 15, 238, 248, 223, 111, 126, 122, 93, 50, 27, 217,
                14, 83, 152, 214, 96, 140, 184, 168, 184, 143, 18, 96, 28, 217, 199, 78,
                139, 240, 111, 92, 156, 178, 233, 194, 172, 14, 188, 160, 105, 242, 207, 188,
                56, 2, 188, 37, 128, 238, 17, 254, 118, 59, 130, 45, 238, 169, 67, 90,
                43, 193, 193, 74, 227, 88, 124, 209, 137, 152, 135, 21, 182, 119, 150, 109,
                201, 60, 229, 222, 145, 217, 139, 222, 135, 131, 67, 108, 33, 100, 82, 136,
                120, 48, 109, 2, 81, 127, 53, 86, 25, 118, 230, 162, 233, 154, 149, 118>>]

\* The stream of one seed.
SmallRngBytes(seed) == SmallRngTable[seed]

\* Keys and nonces of the cryptographic backend (K55 = [0x55; 32] is
\* tests::get_key, NAA = [0xAA; 24] is tests::get_nonce).
Keys == {"K55", "K1"}
Nonces == {"NAA", "N1"}

\* The keystream XChaCha8::new(key, nonce) produces: a fixed byte table per
\* (key, nonce) stands for the cipher's output.
XChaCha8Table ==
    [key \in Keys, nonce \in Nonces |->
       CASE key = "K55" /\ nonce = "NAA" ->
                 <<210, 224, 41, 42, 158, 60, 4, 88, 229, 95, 137, 32, 232, 82, 250, 37,
                0, 62, 224, 186, 132, 147, 40, 199, 187, 189, 112, 175, 42, 11, 153, 21,
                143, 213, 142, 54, 101, 36, 222, 162, 41, 199, 212, 129, 128, 133, 26, 49,
                124, 59, 116, 200, 179, 216, 1, 147, 187, 95, 98, 148, 129, 37, 154, 175>>
         [] key = "K55" /\ nonce = "N1" ->
                 <<209, 250, 124, 245, 26, 42, 11, 78, 47, 134, 15, 228, 80, 202, 75, 167,
                235, 74, 123, 176, 255, 68, 23, 83, 52, 224, 203, 239, 133, 218, 189, 135,
                152, 73, 6, 173, 242, 4, 78, 72, 229, 32, 142, 84, 225, 30, 72, 1,
                252, 64, 38, 37, 149, 32, 132, 253, 95, 38, 247, 164, 70, 249, 38, 170>>
         [] key = "K1" /\ nonce = "NAA" ->
                 <<180, 88, 184, 50, 155, 51, 126, 36, 211, 162, 70, 220, 230, 67, 185, 101,
                34, 15, 208, 129, 134, 236, 165, 176, 113, 246, 76, 246, 164, 188, 75, 233,
                11, 172, 219, 40, 61, 54, 65, 31, 128, 248, 162, 66, 0, 119, 34, 197,
                94, 179, 193, 115, 92, 226, 160, 186, 227, 135, 80, 200, 214, 68, 66, 26>>
         [] key = "K1" /\ nonce = "N1" ->
                 <<224, 71, 80, 79, 129, 147, 227, 126, 179, 247, 232, 94, 99, 68, 117, 51,
                158, 234, 48, 185, 74, 203, 38, 203, 201, 125, 36, 56, 77, 30, 157, 167,
                54, 53, 114, 160, 131, 240, 98, 253, 213, 96, 172, 55, 121, 26, 22, 155,
                244, 38, 16, 81, 74, 172, 170, 114, 27, 18, 196, 94, 118, 144, 57, 43>>]

\* The stream of one key and nonce.
XChaCha8Bytes(key, nonce) == XChaCha8Table[key, nonce]

\* Key material of a container: the seed, or the key and nonce.
KeyMaterials(backend) ==
    IF backend = "fast"
    THEN {[seed |-> s] : s \in Seeds}
    ELSE {[key |-> k, nonce |-> n] : k \in Keys, n \in Nonces}

\* tests::get_seed, and tests::get_key with tests::get_nonce.
TestKeyMaterial(backend) ==
    IF backend = "fast"
    THEN [seed |-> "0x2357bd1113171d1f"]
    ELSE [key |-> "K55", nonce |-> "NAA"]

\* Key material the constructors are called with: any seed, or the key and
\* nonce of the tests or a pair differing from them in both; rekey installs
\* the remaining pairs.
CtorKeyMaterials(backend) ==
    IF backend = "fast"
    THEN KeyMaterials(backend)
    ELSE {TestKeyMaterial(backend), [key |-> "K1", nonce |-> "N1"]}

\* SmallRng::seed_from_u64(seed) / XChaCha8::new(&key, &nonce): a new engine
\* at the start of the key material's stream.
NewEngine(backend, km) == [backend |-> backend, km |-> km, pos |-> 0]

Stream(eng) ==
    IF eng.backend = "fast"
    THEN SmallRngBytes(eng.km.seed)
    ELSE XChaCha8Bytes(eng.km.key, eng.km.nonce)

\* encrust_rng.fill_bytes(&mut key): the next n bytes of the stream.
fill_bytes(eng, n) ==
    LET stream == Stream(eng)
    IN  [bytes |-> [i \in 1..n |-> stream[eng.pos + i]],
         eng   |-> [eng EXCEPT !.pos = @ + n]]

\* Mutant of apply_keystream: every call applies the keystream from its
\* start.
apply_keystream_from_start(eng, bytes) ==
    LET stream == Stream(eng)
    IN  [bytes |-> [i \in 1..Len(bytes) |-> Xor(bytes[i], stream[i])],
         eng   |-> eng]

\* encruster.apply_keystream(&mut bytes): XOR with the next Len(bytes) bytes.
apply_keystream(eng, bytes) ==
    LET stream == Stream(eng)
    IN  [bytes |-> [i \in 1..Len(bytes) |-> Xor(bytes[i], stream[eng.pos + i])],
         eng   |-> [eng EXCEPT !.pos = @ + Len(bytes)]]

\* Mutant of xor_chunks: the keystream is applied with no byte left out
\* between chunks or after the last one.
xor_chunks_no_discard(bytes, eng, blk) == apply_keystream(eng, bytes)

RECURSIVE xor_chunks(_, _, _)
\* for chunk in bytes.chunks_mut(blk) { fill_bytes(&mut key); chunk ^= key }
\* with key: [u8; blk]: a whole block is drawn for every chunk.
xor_chunks(bytes, eng, blk) ==
    IF bytes = <<>>
    THEN [bytes |-> <<>>, eng |-> eng]
    ELSE LET n     == Min(blk, Len(bytes))
             key   == fill_bytes(eng, blk)
             chunk == [i \in 1..n |-> Xor(bytes[i], key.bytes[i])]
             rest  == xor_chunks(SubSeq(bytes, n + 1, Len(bytes)), key.eng, blk)
         IN  [bytes |-> chunk \o rest.bytes, eng |-> rest.eng]

-----------------------------------------------------------------------------
(* Values.  [kind, body]:                                                   *)
(*   "int"   body = the base-256 digits of the integer's bit pattern, most  *)
(*           significant first (the width is the number of digits)          *)
(*   "text"  body = the bytes of the String's buffer                        *)
(*   "array" body = the elements of a [T; N]                                *)
(*   "vec"   body = the elements of a Vec<T>                                *)
(*   "struct" body = the fields of a struct with derive(Encrustable), in    *)
(*           declaration order                                              *)
(*   "enum"  variant = the active variant of an enum with                   *)
(*           derive(Encrustable), body = that variant's fields in order     *)

IntV(digits) == [kind |-> "int", body |-> digits]
TextV(bytes) == [kind |-> "text", body |-> bytes]
ArrayV(elems) == [kind |-> "array", body |-> elems]
VecV(elems) == [kind |-> "vec", body |-> elems]
StructV(fields) == [kind |-> "struct", body |-> fields]
EnumV(variant, fields) == [kind |-> "enum", variant |-> variant, body |-> fields]

Endians == {"little", "big"}

\* n.to_le_bytes(): least significant digit first.
to_le_bytes(v) == Reverse(v.body)

\* Mutant of from_le_bytes: the bytes read back most significant first.
from_le_bytes_as_be(bytes) == IntV(bytes)

\* Self::from_le_bytes(bytes).
from_le_bytes(bytes) == IntV(Reverse(bytes))

\* n.to_ne_bytes() / from_ne_bytes: the byte order of the platform.
to_ne_bytes(v, endian) == IF endian = "little" THEN Reverse(v.body) ELSE v.body
from_ne_bytes(bytes, endian) ==
    IF endian = "little" THEN IntV(Reverse(bytes)) ELSE IntV(bytes)

\* encrustable_number! (fast backend): the little-endian bytes are XORed in
\* chunks of 8, a block of 8 key bytes being drawn for each chunk.
toggle_number_fast(v, eng) ==
    LET r == xor_chunks(to_le_bytes(v), eng, 8)
    IN  [val |-> from_le_bytes(r.bytes), eng |-> r.eng]

\* encrustable_number! (cryptographic backend): apply_keystream on the
\* native-endian bytes.
toggle_number_crypto(v, eng, endian) ==
    LET r == apply_keystream(eng, to_ne_bytes(v, endian))
    IN  [val |-> from_ne_bytes(r.bytes, endian), eng |-> r.eng]

\* impl Encrustable for String (fast backend): the buffer is XORed in chunks
\* of 16, a block of 16 key bytes being drawn for each chunk.
toggle_string_fast(v, eng) ==
    LET r == xor_chunks(v.body, eng, 16)
    IN  [val |-> TextV(r.bytes), eng |-> r.eng]

\* impl Encrustable for String (cryptographic backend).
toggle_string_crypto(v, eng) ==
    LET r == apply_keystream(eng, v.body)
    IN  [val |-> TextV(r.bytes), eng |-> r.eng]

RECURSIVE toggle_encrust(_, _, _)
RECURSIVE toggle_elements(_, _, _)

\* Mutant of toggle_elements: the elements are visited from the last to the
\* first.
toggle_elements_descending(elems, eng, endian) ==
    IF elems = <<>>
    THEN [elems |-> <<>>, eng |-> eng]
    ELSE LET n    == Len(elems)
             last == toggle_encrust(elems[n], eng, endian)
             rest == toggle_elements(SubSeq(elems, 1, n - 1), last.eng, endian)
         IN  [elems |-> rest.elems \o <<last.val>>, eng |-> rest.eng]

\* impl Encrustable for [T; N] and for Vec<T>: `for element in self`, each
\* element toggled with the same, continuing engine.
toggle_elements(elems, eng, endian) ==
    IF elems = <<>>
    THEN [elems |-> <<>>, eng |-> eng]
    ELSE LET first == toggle_encrust(Head(elems), eng, endian)
             rest  == toggle_elements(Tail(elems), first.eng, endian)
         IN  [elems |-> <<first.val>> \o rest.elems, eng |-> rest.eng]

\* Mutant of gen_struct_fields_calls: only the first field is toggled.
gen_struct_fields_calls_first_only(v, eng, endian) ==
    IF v.body = <<>>
    THEN [val |-> v, eng |-> eng]
    ELSE LET r == toggle_encrust(Head(v.body), eng, endian)
         IN  [val |-> StructV(<<r.val>> \o Tail(v.body)), eng |-> r.eng]

RECURSIVE gen_struct_fields_calls(_, _, _)
\* derive(Encrustable) on a struct: one toggle_encrust call per field, in
\* declaration order, on the same engine; none for a unit struct.
gen_struct_fields_calls(v, eng, endian) ==
    LET r == toggle_elements(v.body, eng, endian)
    IN  [val |-> StructV(r.elems), eng |-> r.eng]

\* Mutant of gen_variant_fields_calls: the value is left as the unit
\* variant.
gen_variant_fields_calls_unit(v, eng, endian) ==
    [val |-> EnumV("_Unit", <<>>), eng |-> eng]

RECURSIVE gen_variant_fields_calls(_, _, _)
\* derive(Encrustable) on an enum: `match self`, then one toggle_encrust call
\* per field of the active variant, in order; none for a unit variant.
gen_variant_fields_calls(v, eng, endian) ==
    LET r == toggle_elements(v.body, eng, endian)
    IN  [val |-> EnumV(v.variant, r.elems), eng |-> r.eng]

\* Encrustable::toggle_encrust, dispatched on the type of the value.
toggle_encrust(v, eng, endian) ==
    CASE v.kind = "int" /\ eng.backend = "fast"    -> toggle_number_fast(v, eng)
      [] v.kind = "int" /\ eng.backend = "crypto"  -> toggle_number_crypto(v, eng, endian)
      [] v.kind = "text" /\ eng.backend = "fast"   -> toggle_string_fast(v, eng)
      [] v.kind = "text" /\ eng.backend = "crypto" -> toggle_string_crypto(v, eng)
      [] v.kind = "struct" -> gen_struct_fields_calls(v, eng, endian)
      [] v.kind = "enum"   -> gen_variant_fields_calls(v, eng, endian)
      [] OTHER ->
           LET r == toggle_elements(v.body, eng, endian)
           IN  [val |-> [kind |-> v.kind, body |-> r.elems], eng |-> r.eng]

RECURSIVE zeroize(_)
\* Zeroize: integers become 0, a String or a Vec is zeroed and cleared, an
\* array is zeroized element by element, a struct or an enum with
\* derive(Zeroize) field by field.
zeroize(v) ==
    CASE v.kind = "int"   -> IntV([i \in 1..Len(v.body) |-> 0])
      [] v.kind = "text"  -> TextV(<<>>)
      [] v.kind = "vec"   -> VecV(<<>>)
      [] v.kind = "array" -> ArrayV([i \in 1..Len(v.body) |-> zeroize(v.body[i])])
      [] v.kind = "struct" -> StructV([i \in 1..Len(v.body) |-> zeroize(v.body[i])])
      [] v.kind = "enum" ->
           EnumV(v.variant, [i \in 1..Len(v.body) |-> zeroize(v.body[i])])

\* The key material after zeroize.
ZeroSeed == "0x0000000000000000"
ZeroKey == "K00"
ZeroNonce == "N00"

-----------------------------------------------------------------------------
(* The values the model constructs containers from and writes through a      *)
(* guard.  ty is the Rust type T of Encrusted<T>; it never changes.          *)

Samples ==
    << [ty |-> "u8",       val |-> IntV(<<0>>)],
       [ty |-> "u8",       val |-> IntV(<<42>>)],
       [ty |-> "u32",      val |-> IntV(<<0, 0, 0, 42>>)],
       [ty |-> "u128",     val |-> IntV(<<0, 0, 0, 0, 0, 0, 0, 1, 2, 3, 4, 5, 6, 7, 8, 9>>)],
       [ty |-> "String",   val |-> TextV(<<>>)],
       [ty |-> "String",   val |-> TextV(<<72, 105>>)],
       [ty |-> "String",   val |-> TextV(<<84, 104, 101, 32, 113, 117, 105, 99, 107,
                                          32, 98, 114, 111, 119, 110, 32, 102>>)],
       [ty |-> "[u8; 3]",  val |-> ArrayV(<<IntV(<<0>>), IntV(<<1>>), IntV(<<2>>)>>)],
       [ty |-> "Vec<u16>", val |-> VecV(<<>>)],
       [ty |-> "Vec<u16>", val |-> VecV(<<IntV(<<0, 1>>), IntV(<<1, 2>>)>>)],
       [ty |-> "Named",
        val |-> StructV(<<IntV(<<31>>), IntV(<<0, 0, 5, 57>>),
                          ArrayV(<<IntV(<<0, 6>>), IntV(<<0, 5>>)>>),
                          VecV(<<IntV(<<13>>), IntV(<<37>>)>>),
                          TextV(<<72, 105>>)>>)],
       [ty |-> "Generic<u32, [u8; 4], String>",
        val |-> StructV(<<IntV(<<0, 0, 0, 13>>),
                          ArrayV(<<IntV(<<80>>), IntV(<<80>>), IntV(<<80>>), IntV(<<80>>)>>),
                          TextV(<<72, 105>>)>>)],
       [ty |-> "NamedOrTuple",
        val |-> EnumV("Named",
                      <<IntV(<<31>>), IntV(<<0, 0, 5, 57>>),
                        ArrayV(<<IntV(<<0, 6>>), IntV(<<0, 5>>)>>),
                        VecV(<<IntV(<<13>>), IntV(<<37>>)>>),
                        TextV(<<72, 105>>)>>)],
       [ty |-> "NamedOrTuple", val |-> EnumV("_Unit", <<>>)] >>

\* tests::TEST_STRING, "The quick brown fox jumps over the lazy dog" followed
\* by U+1F60A, as UTF-8.
TEST_STRING ==
    TextV(<<84, 104, 101, 32, 113, 117, 105, 99, 107, 32, 98, 114, 111, 119, 110, 32,
            102, 111, 120, 32, 106, 117, 109, 112, 115, 32, 111, 118, 101, 114, 32, 116,
            104, 101, 32, 108, 97, 122, 121, 32, 100, 111, 103, 240, 159, 152, 138>>)

\* tests::ensure_encrust_has_not_changed: the stored form of TEST_STRING
\* recorded by an earlier version of the crate, and the seed it was made with.
PinnedSeed == "5233902475398815152"
PinnedData ==
    TextV(<<55, 10, 35, 94, 130, 81, 207, 225, 64, 17, 143, 78, 95, 204, 50, 183,
            54, 185, 59, 50, 163, 122, 131, 136, 172, 79, 17, 12, 56, 64, 59, 173,
            102, 54, 184, 186, 1, 246, 193, 136, 220, 224, 117, 144, 131, 65, 77>>)

-----------------------------------------------------------------------------
(* Encrusted<T> and Decrusted<T>                                            *)

\* The obfuscated form of v under km: one toggle with a new engine.
Obfuscated(backend, v, km, endian) ==
    toggle_encrust(v, NewEngine(backend, km), endian).val

\* Mutant of Encrusted_new: the data is stored without being toggled.
Encrusted_new_untoggled(backend, v, km, endian) == [data |-> v, km |-> km]

\* Encrusted::new(data, seed) / Encrusted::new(data, key, nonce).
Encrusted_new(backend, v, km, endian) ==
    [data |-> toggle_encrust(v, NewEngine(backend, km), endian).val, km |-> km]

\* Mutant of from_encrusted_data: key material other than the one passed
\* is stored.
from_encrusted_data_other_key(v, km) ==
    [data |-> v,
     km   |-> CHOOSE k \in KeyMaterials(IF "seed" \in DOMAIN km THEN "fast" ELSE "crypto") :
                 k # km]

\* Mutant of from_encrusted_data: the data passed is toggled under the key
\* material passed, as Encrusted::new does.
from_encrusted_data_toggled(v, km) ==
    [data |-> toggle_encrust(v, NewEngine(IF "seed" \in DOMAIN km THEN "fast" ELSE "crypto", km),
                             "little").val,
     km   |-> km]

\* Encrusted::from_encrusted_data: the fields as passed.
from_encrusted_data(v, km) == [data |-> v, km |-> km]

\* Mutant of Decrusted_new: the guard is handed out over the data as stored.
Decrusted_new_untoggled(backend, d, km, endian) == d

\* Decrusted::new: de-obfuscates the container's data in place.
Decrusted_new(backend, d, km, endian) ==
    toggle_encrust(d, NewEngine(backend, km), endian).val

\* Mutant of Decrusted_drop: the guard goes away without toggling the data.
Decrusted_drop_skipped(backend, d, km, endian) == d

\* Drop for Decrusted: re-obfuscates the container's data in place.
Decrusted_drop(backend, d, km, endian) ==
    toggle_encrust(d, NewEngine(backend, km), endian).val

\* Mutant of BorrowableMut: decrust, reseed and drop take a shared borrow.
BorrowableMut_shared(n) == TRUE

\* Encrusted::decrust(&mut self) needs the exclusive borrow of the
\* container, which a live Decrusted holds for its lifetime 'decrusted.
BorrowableMut(n) == n = 0

\* Mutant of reseed: the engine of the second toggle is built before
\* `self.seed = new_seed`, from the old seed.
reseed_stale_engine(d, seed, new_seed, endian) ==
    LET decrusted == toggle_encrust(d, NewEngine("fast", [seed |-> seed]), endian).val
    IN  [data |-> toggle_encrust(decrusted, NewEngine("fast", [seed |-> seed]), endian).val,
         km   |-> [seed |-> new_seed]]

\* Encrusted::reseed(new_seed).
reseed(d, seed, new_seed, endian) ==
    LET decrusted == toggle_encrust(d, NewEngine("fast", [seed |-> seed]), endian).val
        newKm     == [seed |-> new_seed]
    IN  [data |-> toggle_encrust(decrusted, NewEngine("fast", newKm), endian).val,
         km   |-> newKm]

\* Mutant of rekey: the engine of the second toggle is built before the new
\* key and nonce are stored, from the old ones.
rekey_stale_engine(d, km, new_key, new_nonce, endian) ==
    LET decrusted == toggle_encrust(d, NewEngine("crypto", km), endian).val
    IN  [data |-> toggle_encrust(decrusted, NewEngine("crypto", km), endian).val,
         km   |-> [key |-> new_key, nonce |-> new_nonce]]

\* Encrusted::rekey(rng), the generator handing out new_key then new_nonce.
rekey(d, km, new_key, new_nonce, endian) ==
    LET decrusted == toggle_encrust(d, NewEngine("crypto", km), endian).val
        newKm     == [key |-> new_key, nonce |-> new_nonce]
    IN  [data |-> toggle_encrust(decrusted, NewEngine("crypto", newKm), endian).val,
         km   |-> newKm]

\* Encrusted::rekey(rng) when the generator panics: at stage "key" in
\* `self.key = rng.gen()`, at stage "nonce" in `self.nonce = rng.gen()`
\* (new_key is then already stored).  The second toggle is never reached.
rekey_unwind(d, km, stage, new_key, endian) ==
    [data |-> toggle_encrust(d, NewEngine("crypto", km), endian).val,
     km   |-> IF stage = "key" THEN km ELSE [km EXCEPT !.key = new_key]]

\* Drop for Encrusted (fast backend): data.zeroize(); seed.zeroize().
\* w counts the zeroize calls made on each field.
Encrusted_drop_fast(d, km, w) ==
    [data  |-> zeroize(d),
     km    |-> [seed |-> ZeroSeed],
     wipes |-> [w EXCEPT !.data = @ + 1, !.seed = @ + 1]]

\* Drop for Encrusted (cryptographic backend):
\* data.zeroize(); key.zeroize(); data.zeroize().
Encrusted_drop_crypto(d, km, w) ==
    [data  |-> zeroize(zeroize(d)),
     km    |-> [km EXCEPT !.key = ZeroKey],
     wipes |-> [w EXCEPT !.data = @ + 2, !.key = @ + 1]]

-----------------------------------------------------------------------------
(* Hashstring and Hashbytes: the hash of a text or byte pattern.  Text is   *)
(* the sequence of its UTF-8 bytes; u64 values are written as text.         *)

\* The seeds the model draws from: the one recorded in
\* tests::ensure_hashstring_bytes_has_not_changed, the one of the
\* documentation of Hashstring, and 21204.
HashSeeds == {"15748439925883409278", "0xabcdef", "21204"}

\* The first multiplier word of rapidhash v3 (the default secret 1,
\* 0x8bb84b93962eacc9), as little-endian bytes.
RapidSecret1 == <<201, 172, 46, 150, 147, 75, 184, 139>>

\* tests::A_STRING, "A string" followed by U+1F636.
A_STRING ==
    <<65, 32, 115, 116, 114, 105, 110, 103, 240, 159, 152, 182>>

\* tests::A_LOWERCASE_STRING.
A_LOWERCASE_STRING ==
    <<97, 32, 115, 116, 114, 105, 110, 103, 240, 159, 152, 182>>

\* "Find me!" of the documentation of hashstring! and hashstring_ci!.
FIND_ME ==
    <<70, 105, 110, 100, 32, 109, 101, 33>>

\* "fInD Me!" of the same documentation.
FIND_ME_MIXED ==
    <<102, 73, 110, 68, 32, 77, 101, 33>>

\* "find me!", the lowercase folding of the two above.
FIND_ME_LOWER ==
    <<102, 105, 110, 100, 32, 109, 101, 33>>

\* "A1HxE6xsi": an uppercase letter, then the bytes of RapidSeedWord("21204", 9).
UPPER_WORD ==
    <<65, 49, 72, 120, 69, 54, 120, 115, 105>>

\* "a1HxE6xsi": the same with the first letter in lowercase.
LOWER_WORD ==
    <<97, 49, 72, 120, 69, 54, 120, 115, 105>>

\* "a1hxe6xsi", the lowercase folding of the two above.
FOLDED_WORD ==
    <<97, 49, 104, 120, 101, 54, 120, 115, 105>>

\* the bytes of RapidSecret1 followed by 0.
SECRET_THEN_0 ==
    <<201, 172, 46, 150, 147, 75, 184, 139, 0>>

\* the bytes of RapidSecret1 followed by 1.
SECRET_THEN_1 ==
    <<201, 172, 46, 150, 147, 75, 184, 139, 1>>

\* The text patterns and candidates the model draws from.
TextPatterns ==
    {A_STRING, A_LOWERCASE_STRING, FIND_ME, FIND_ME_MIXED, UPPER_WORD, LOWER_WORD}

\* The byte patterns and candidates the model draws from.
BytePatterns ==
    {A_STRING, A_LOWERCASE_STRING, FIND_ME, FIND_ME_MIXED, UPPER_WORD, LOWER_WORD,
     SECRET_THEN_0, SECRET_THEN_1}

\* rapidhash_v3_seeded(bytes, &RapidSecrets::seed_cpp(seed)): the values the
\* hash gives on the patterns above (the algorithm reproduces the value
\* recorded in tests::ensure_hashstring_bytes_has_not_changed).
rapidhash_v3_seeded(bytes, seed) ==
    CASE seed = "15748439925883409278" ->
           (CASE bytes = A_STRING -> "10604430168967774005"
              [] bytes = A_LOWERCASE_STRING -> "10002744355855325072"
              [] bytes = FIND_ME -> "1184253637106563276"
              [] bytes = FIND_ME_MIXED -> "9092263256525120462"
              [] bytes = FIND_ME_LOWER -> "11227722397899671468"
              [] bytes = UPPER_WORD -> "5112650911224262190"
              [] bytes = LOWER_WORD -> "15789186762662024366"
              [] bytes = FOLDED_WORD -> "15825453887110473518"
              [] bytes = SECRET_THEN_0 -> "1198139217864180906"
              [] bytes = SECRET_THEN_1 -> "1198139217864180906")
      [] seed = "0xabcdef" ->
           (CASE bytes = A_STRING -> "7491519886277328636"
              [] bytes = A_LOWERCASE_STRING -> "14227803878521798170"
              [] bytes = FIND_ME -> "7087800317897976146"
              [] bytes = FIND_ME_MIXED -> "15776056346517355671"
              [] bytes = FIND_ME_LOWER -> "1233580385808365965"
              [] bytes = UPPER_WORD -> "5173908290840777150"
              [] bytes = LOWER_WORD -> "9289629792080275005"
              [] bytes = FOLDED_WORD -> "15390892895518133184"
              [] bytes = SECRET_THEN_0 -> "1198139217864180906"
              [] bytes = SECRET_THEN_1 -> "1198139217864180906")
      [] seed = "21204" ->
           (CASE bytes = A_STRING -> "5014115165953984888"
              [] bytes = A_LOWERCASE_STRING -> "4372826286931538033"
              [] bytes = FIND_ME -> "7483109888256781459"
              [] bytes = FIND_ME_MIXED -> "11052789341983200758"
              [] bytes = FIND_ME_LOWER -> "11000425178528522119"
              [] bytes = UPPER_WORD -> "1198139217864180906"
              [] bytes = LOWER_WORD -> "1198139217864180906"
              [] bytes = FOLDED_WORD -> "2841955164957857701"
              [] bytes = SECRET_THEN_0 -> "1198139217864180906"
              [] bytes = SECRET_THEN_1 -> "1198139217864180906")

\* The second multiplier word of rapidhash v3 for an input of n bytes: the
\* seed as RapidSecrets::seed_cpp premixes it, XOR n, as little-endian bytes.
RapidSeedWord(seed, n) ==
    CASE seed = "15748439925883409278" /\ n = 8 -> <<31, 229, 213, 63, 84, 211, 148, 220>>
      [] seed = "15748439925883409278" /\ n = 9 -> <<30, 229, 213, 63, 84, 211, 148, 220>>
      [] seed = "15748439925883409278" /\ n = 12 -> <<27, 229, 213, 63, 84, 211, 148, 220>>
      [] seed = "0xabcdef" /\ n = 8 -> <<239, 160, 52, 107, 232, 32, 155, 8>>
      [] seed = "0xabcdef" /\ n = 9 -> <<238, 160, 52, 107, 232, 32, 155, 8>>
      [] seed = "0xabcdef" /\ n = 12 -> <<235, 160, 52, 107, 232, 32, 155, 8>>
      [] seed = "21204" /\ n = 8 -> <<48, 72, 120, 69, 54, 120, 115, 105>>
      [] seed = "21204" /\ n = 9 -> <<49, 72, 120, 69, 54, 120, 115, 105>>
      [] seed = "21204" /\ n = 12 -> <<52, 72, 120, 69, 54, 120, 115, 105>>

\* str::to_lowercase on text made of ASCII and of characters without case:
\* the bytes of 'A'..'Z' become those of 'a'..'z'.
to_lowercase(s) ==
    [i \in 1..Len(s) |-> IF s[i] \in 65..90 THEN s[i] + 32 ELSE s[i]]

Sensitivities == {"CaseInsensitive", "CaseSensitive"}

\* Mutant of Hashstring_new: the text is hashed as given, whatever the
\* sensitivity.
Hashstring_new_unfolded(s, seed, sensitivity) ==
    [type |-> "Hashstring", value |-> rapidhash_v3_seeded(s, seed),
     seed |-> seed, sensitivity |-> sensitivity]

\* Hashstring::new(s, seed, sensitivity).
Hashstring_new(s, seed, sensitivity) ==
    LET value == IF sensitivity = "CaseInsensitive"
                 THEN rapidhash_v3_seeded(to_lowercase(s), seed)
                 ELSE rapidhash_v3_seeded(s, seed)
    IN  [type |-> "Hashstring", value |-> value, seed |-> seed,
         sensitivity |-> sensitivity]

\* Hashstring::new_from_raw_value(value, seed, sensitivity).
Hashstring_new_from_raw_value(value, seed, sensitivity) ==
    [type |-> "Hashstring", value |-> value, seed |-> seed,
     sensitivity |-> sensitivity]

\* Mutant of Hashstring_eq: the candidate is folded to lowercase whatever
\* the sensitivity.
Hashstring_eq_always_folds(h, candidate) ==
    h.value = rapidhash_v3_seeded(to_lowercase(candidate), h.seed)

\* PartialEq<&str> for Hashstring.
Hashstring_eq(h, candidate) ==
    LET other_value == IF h.sensitivity = "CaseInsensitive"
                       THEN rapidhash_v3_seeded(to_lowercase(candidate), h.seed)
                       ELSE rapidhash_v3_seeded(candidate, h.seed)
    IN  h.value = other_value

\* Mutant of Hashbytes_new: the bytes are kept next to their hash.
Hashbytes_new_keeps_bytes(bytes, seed) ==
    [type |-> "Hashbytes", value |-> rapidhash_v3_seeded(bytes, seed), seed |-> seed,
     bytes |-> bytes]

\* Hashbytes::new(bytes, seed).
Hashbytes_new(bytes, seed) ==
    [type |-> "Hashbytes", value |-> rapidhash_v3_seeded(bytes, seed), seed |-> seed]

\* No lowercase copy was allocated.
NoLowercase == [allocated |-> FALSE, buffer |-> <<>>]

\* The String lowercase_string of Hashstring::new when new returns: made
\* by s.to_lowercase() when CaseInsensitive, hashed, then overwritten by
\* Zeroize::zeroize.
Hashstring_new_lowercase_string(s, sensitivity) ==
    IF sensitivity = "CaseInsensitive"
    THEN [allocated |-> TRUE, buffer |-> zeroize(TextV(to_lowercase(s))).body]
    ELSE NoLowercase

\* The temporary other.to_lowercase() of PartialEq<&str> for Hashstring
\* when eq returns: made when CaseInsensitive, hashed, then dropped as it
\* is.
Hashstring_eq_to_lowercase(h, candidate) ==
    IF h.sensitivity = "CaseInsensitive"
    THEN [allocated |-> TRUE, buffer |-> to_lowercase(candidate)]
    ELSE NoLowercase

\* Hashbytes::new_from_raw_value(value, seed).
Hashbytes_new_from_raw_value(value, seed) ==
    [type |-> "Hashbytes", value |-> value, seed |-> seed]

\* Mutant of Hashbytes_eq: every candidate is accepted.
Hashbytes_eq_accepts_all(h, candidate) == TRUE

\* PartialEq<&[u8]> for Hashbytes.
Hashbytes_eq(h, candidate) ==
    LET other_value == rapidhash_v3_seeded(candidate, h.seed)
    IN  h.value = other_value

-----------------------------------------------------------------------------
(* The build-time generator of encrust!, encrust_vec!, encrust_file_string! *)
(* and encrust_file_bytes!.  A Literal is a value: an integer with its      *)
(* suffix's width, a String, or an Array of literals; a LiteralVec is a     *)
(* "vec" of literals.  The tokens emitted are                               *)
(*   [tok |-> "int", body]     quote! {#n}: the suffixed literal of n       *)
(*   [tok |-> "from_utf8_unchecked", body]                                  *)
(*                             String::from_utf8_unchecked([bytes].to_vec()) *)
(*   [tok |-> "array", body]   [items]                                      *)
(*   [tok |-> "to_vec", body]  [items].to_vec()                             *)
(*   [tok |-> "compile_error"] compile_error!(message)                      *)

\* The files the build can be asked to read: the bytes of the file, or the
\* error of std::fs::read / read_to_string.
Files(path) ==
    CASE path = "tests/encrust_files.rs" ->
           [ok |-> TRUE, bytes |-> <<47, 47, 32, 240, 159, 149, 182, 10>>]
      [] path = "tests/missing.rs" ->
           [ok |-> FALSE, bytes |-> <<>>]

\* What the four macros are called with in the model: a literal, the
\* literals of a vec, or the path of a file.
MacroInputs ==
    << [macro |-> "encrust", ty |-> "i8", lit |-> IntV(<<255>>)],
       [macro |-> "encrust", ty |-> "u16", lit |-> IntV(<<0, 1>>)],
       [macro |-> "encrust", ty |-> "i32", lit |-> IntV(<<255, 255, 255, 255>>)],
       [macro |-> "encrust", ty |-> "u64", lit |-> IntV(<<0, 0, 0, 0, 0, 0, 0, 1>>)],
       [macro |-> "encrust", ty |-> "i128",
        lit |-> IntV(<<255, 255, 255, 255, 255, 255, 255, 255,
                       255, 255, 255, 255, 255, 255, 255, 255>>)],
       [macro |-> "encrust", ty |-> "String", lit |-> TextV(<<>>)],
       [macro |-> "encrust", ty |-> "String",
        lit |-> TextV(<<84, 104, 101, 32, 113, 117, 105, 99, 107,
                        32, 98, 114, 111, 119, 110, 32, 102>>)],
       [macro |-> "encrust", ty |-> "[[u8; 3]; 2]",
        lit |-> ArrayV(<<ArrayV(<<IntV(<<1>>), IntV(<<2>>), IntV(<<3>>)>>),
                         ArrayV(<<IntV(<<1>>), IntV(<<2>>), IntV(<<3>>)>>)>>)],
       [macro |-> "encrust", ty |-> "[String; 2]",
        lit |-> ArrayV(<<TextV(<<72, 105>>), TextV(<<72, 105>>)>>)],
       [macro |-> "encrust_vec", ty |-> "Vec<i16>",
        lit |-> VecV(<<IntV(<<0, 1>>), IntV(<<255, 254>>), IntV(<<0, 3>>)>>)],
       [macro |-> "encrust_vec", ty |-> "Vec<String>",
        lit |-> VecV(<<TextV(<<72, 105>>), TextV(<<>>)>>)],
       [macro |-> "encrust_file_string", ty |-> "String", path |-> "tests/encrust_files.rs"],
       [macro |-> "encrust_file_bytes", ty |-> "[u8; 8]", path |-> "tests/encrust_files.rs"],
       [macro |-> "encrust_file_string", ty |-> "String", path |-> "tests/missing.rs"],
       [macro |-> "encrust_file_bytes", ty |-> "[u8; 0]", path |-> "tests/missing.rs"] >>

\* s.as_bytes() as a Vec<u8>, and the bytes of a Vec<u8>.
as_bytes_vec(bytes) == VecV([i \in 1..Len(bytes) |-> IntV(<<bytes[i]>>)])
vec_bytes(v) == [i \in 1..Len(v.body) |-> v.body[i].body[1]]

RECURSIVE Literal_to_token_stream(_, _, _)
RECURSIVE items_to_token_stream(_, _, _)

\* arr.iter().map(|el| el.to_token_stream(encruster)).collect(): the items
\* in order, on the one encruster.
items_to_token_stream(items, encruster, host) ==
    IF items = <<>>
    THEN [tokens |-> <<>>, eng |-> encruster]
    ELSE LET first == Literal_to_token_stream(Head(items), encruster, host)
             rest  == items_to_token_stream(Tail(items), first.eng, host)
         IN  [tokens |-> <<first.tokens>> \o rest.tokens, eng |-> rest.eng]

\* ToEncrustedTokenStream for Literal and for LiteralVec (fast backend),
\* ToTokenStream for them (cryptographic backend), run on the build host.
\* An integer is toggled as its type; a String is toggled as a String by the
\* fast backend and as the Vec<u8> of its bytes by the cryptographic
\* backend; the items of an Array are emitted as [items], those of a
\* LiteralVec as [items].to_vec().
Literal_to_token_stream(lit, encruster, host) ==
    CASE lit.kind = "int" ->
           LET n == toggle_encrust(lit, encruster, host)
           IN  [tokens |-> [tok |-> "int", body |-> n.val.body], eng |-> n.eng]
      [] lit.kind = "text" /\ encruster.backend = "fast" ->
           LET string == toggle_encrust(lit, encruster, host)
           IN  [tokens |-> [tok |-> "from_utf8_unchecked", body |-> string.val.body],
                eng    |-> string.eng]
      [] lit.kind = "text" /\ encruster.backend = "crypto" ->
           LET bytes == toggle_encrust(as_bytes_vec(lit.body), encruster, host)
           IN  [tokens |-> [tok |-> "from_utf8_unchecked", body |-> vec_bytes(bytes.val)],
                eng    |-> bytes.eng]
      [] lit.kind \in {"array", "vec"} ->
           LET r == items_to_token_stream(lit.body, encruster, host)
           IN  [tokens |-> [tok  |-> IF lit.kind = "array" THEN "array" ELSE "to_vec",
                            body |-> r.tokens],
                eng    |-> r.eng]

\* What StringFileReader and BytesFileReader make of the file read:
\* Literal::String of the text, Literal::Array of one Literal::U8 per byte.
FileLiteral(macro, bytes) ==
    IF macro = "encrust_file_string"
    THEN TextV(bytes)
    ELSE ArrayV([i \in 1..Len(bytes) |-> IntV(<<bytes[i]>>)])

\* The value the macro was called to embed.
Embedded(input) ==
    IF input.macro \in {"encrust", "encrust_vec"}
    THEN input.lit
    ELSE FileLiteral(input.macro, Files(input.path).bytes)

\* self.to_token_stream(&mut encruster) of the macro called: that of the
\* literal, of the literals of the vec, or of the literal made of the file;
\* an error when the file cannot be read.
to_token_stream(input, encruster, host) ==
    IF input.macro \in {"encrust_file_string", "encrust_file_bytes"}
          /\ ~Files(input.path).ok
    THEN [tokens |-> [tok |-> "compile_error"], eng |-> encruster]
    ELSE Literal_to_token_stream(Embedded(input), encruster, host)

\* generate_output_tokens, km being the seed or the key and nonce drawn at
\* random: from_encrusted_data(#token_stream, km), or compile_error!.
generate_output_tokens(input, backend, km, host) ==
    [data |-> to_token_stream(input, NewEngine(backend, km), host).tokens,
     km   |-> km]

RECURSIVE Evaluated(_)
\* The value the emitted expression has in the program built.
Evaluated(tokens) ==
    CASE tokens.tok = "int" -> IntV(tokens.body)
      [] tokens.tok = "from_utf8_unchecked" -> TextV(tokens.body)
      [] tokens.tok = "array" ->
           ArrayV([i \in 1..Len(tokens.body) |-> Evaluated(tokens.body[i])])
      [] tokens.tok = "to_vec" ->
           VecV([i \in 1..Len(tokens.body) |-> Evaluated(tokens.body[i])])

-----------------------------------------------------------------------------
(* State                                                                    *)

VARIABLES
    backend,      \* "fast" or "crypto": which generation of the crate
    endian,       \* byte order of the platform the program runs on
    host,         \* byte order of the platform the program was built on
    ty,           \* the type T of the container
    data,         \* Encrusted.data
    keyMaterial,  \* Encrusted.seed, or Encrusted.key and Encrusted.nonce
    status,       \* "live", or "dropped" once Drop for Encrusted has run
    guards,       \* number of live Decrusted borrowing the container
    plain,        \* the value constructed from or last written through a guard
    origin,       \* "new" or "from_encrusted_data"
    obfKey,       \* the key material the data was obfuscated under at construction
    ctorKey,      \* the key material passed to the constructor
    requested,    \* the key material the last reseed / rekey was to install
    exposures,    \* number of decrust calls since construction
    lastOp,       \* the last operation on the container (a release names its exit path)
    rekeyed,      \* a reseed / rekey has completed
    unwound,      \* a rekey has been left by a panic
    wipes,        \* zeroize calls made on each field of the container
    snapshot,     \* <<data as stored when the last guard was handed out>>, or <<>>
                  \* once the value was written through the guard or another
                  \* operation has acted on the container
    fingerprint,  \* the Hashstring or Hashbytes of the program
    pattern,      \* the text or bytes the fingerprint was created from
    other,        \* the candidate of the last comparison
    equal,        \* the result of the last comparison
    compares,     \* number of comparisons made
    lowercase     \* the lowercase copy the last operation on text made, as it left it

\* The variables of the container, and those of the fingerprint.
cvars == <<backend, endian, host, ty, data, keyMaterial, status, guards, plain, origin, obfKey,
           ctorKey, requested, exposures, lastOp, rekeyed, unwound, wipes, snapshot>>
hvars == <<fingerprint, pattern, other, equal, compares, lowercase>>

vars == <<backend, endian, host, ty, data, keyMaterial, status, guards, plain, origin, obfKey,
          ctorKey, requested, exposures, lastOp, rekeyed, unwound, wipes, snapshot,
          fingerprint, pattern, other, equal, compares, lowercase>>

Backends == {"fast", "crypto"}

NoWipes(b) ==
    IF b = "fast" THEN [data |-> 0, seed |-> 0]
    ELSE [data |-> 0, key |-> 0, nonce |-> 0]

\* A container right after Encrusted::new(Samples[i].val, km).
InitNew(b, e, i, km) ==
    LET c == Encrusted_new(b, Samples[i].val, km, e)
    IN  /\ data = c.data
        /\ keyMaterial = c.km
        /\ origin = "new"
        /\ obfKey = km
        /\ ctorKey = km
        /\ requested = km

\* A container right after from_encrusted_data(d, km), d being Samples[i].val
\* toggled with an engine for okm, as the macros and the tests prepare it;
\* okm # km is the caller passing key material that does not match.
InitTrusted(b, e, i, okm, km) ==
    LET c == from_encrusted_data(Obfuscated(b, Samples[i].val, okm, e), km)
    IN  /\ data = c.data
        /\ keyMaterial = c.km
        /\ origin = "from_encrusted_data"
        /\ obfKey = okm
        /\ ctorKey = km
        /\ requested = km

\* A program that has created no Hashstring and no Hashbytes.
NoFingerprint ==
    /\ fingerprint = [type |-> "none"]
    /\ pattern = <<>>
    /\ other = <<>>
    /\ equal = FALSE
    /\ compares = 0
    /\ lowercase = NoLowercase

\* The fast backend serialises with to_le_bytes on every platform, so the
\* byte order of the platform is drawn for the cryptographic backend only.
\* The tests are built on the platform they run on.
Init ==
    /\ backend \in Backends
    /\ endian \in (IF backend = "fast" THEN {"little"} ELSE Endians)
    /\ host = endian
    /\ \E i \in 1..Len(Samples) :
         /\ ty = Samples[i].ty
         /\ plain = Samples[i].val
         /\ \E km \in CtorKeyMaterials(backend) :
              \/ InitNew(backend, endian, i, km)
              \/ InitTrusted(backend, endian, i, km, km)
              \/ /\ km # TestKeyMaterial(backend)
                 /\ InitTrusted(backend, endian, i, TestKeyMaterial(backend), km)
    /\ status = "live"
    /\ guards = 0
    /\ exposures = 0
    /\ lastOp = origin
    /\ rekeyed = FALSE
    /\ unwound = FALSE
    /\ wipes = NoWipes(backend)
    /\ snapshot = <<>>
    /\ NoFingerprint

\* Encrusted::decrust.
Decrust ==
    /\ status = "live"
    /\ BorrowableMut(guards)
    /\ exposures < MaxExposures
    /\ data' = Decrusted_new(backend, data, keyMaterial, endian)
    /\ guards' = guards + 1
    /\ exposures' = exposures + 1
    /\ lastOp' = "decrust"
    /\ snapshot' = <<data>>
    /\ UNCHANGED <<backend, endian, host, ty, keyMaterial, status, plain, origin, obfKey,
                   ctorKey, requested, rekeyed, unwound, wipes>>
    /\ UNCHANGED hvars

\* Deref for Decrusted: a read through a live guard returns the data field.
deref(d) == d

\* DerefMut for Decrusted: the caller assigns another value of type T.
DerefMutWrite ==
    /\ status = "live"
    /\ guards > 0
    /\ \E j \in 1..Len(Samples) :
         /\ Samples[j].ty = ty
         /\ data' = Samples[j].val
         /\ plain' = Samples[j].val
    /\ lastOp' = "write"
    /\ snapshot' = <<>>
    /\ UNCHANGED <<backend, endian, host, ty, keyMaterial, status, guards, origin, obfKey,
                   ctorKey, requested, exposures, rekeyed, unwound, wipes>>
    /\ UNCHANGED hvars

\* The ways the scope of a Decrusted ends: at its end, at an early return,
\* or while a panic unwinds through it.
ExitPaths == {"release_scope_end", "release_early_return", "release_unwind"}

\* Drop for Decrusted, run on each of the exit paths.
DropDecrusted ==
    /\ status = "live"
    /\ guards > 0
    /\ \E path \in ExitPaths : lastOp' = path
    /\ data' = Decrusted_drop(backend, data, keyMaterial, endian)
    /\ guards' = guards - 1
    /\ UNCHANGED <<backend, endian, host, ty, keyMaterial, status, plain, origin, obfKey,
                   ctorKey, requested, exposures, rekeyed, unwound, wipes, snapshot>>
    /\ UNCHANGED hvars

\* Encrusted::reseed (fast backend).
Reseed ==
    /\ backend = "fast"
    /\ status = "live"
    /\ BorrowableMut(guards)
    /\ \E new_seed \in Seeds :
         LET c == reseed(data, keyMaterial.seed, new_seed, endian)
         IN  /\ data' = c.data
             /\ keyMaterial' = c.km
             /\ requested' = [seed |-> new_seed]
    /\ lastOp' = "rekey"
    /\ snapshot' = <<>>
    /\ rekeyed' = TRUE
    /\ UNCHANGED <<backend, endian, host, ty, status, guards, plain, origin, obfKey,
                   ctorKey, exposures, unwound, wipes>>
    /\ UNCHANGED hvars

\* Encrusted::rekey (cryptographic backend), the generator succeeding.
Rekey ==
    /\ backend = "crypto"
    /\ status = "live"
    /\ BorrowableMut(guards)
    /\ \E new_key \in Keys, new_nonce \in Nonces :
         LET c == rekey(data, keyMaterial, new_key, new_nonce, endian)
         IN  /\ data' = c.data
             /\ keyMaterial' = c.km
             /\ requested' = [key |-> new_key, nonce |-> new_nonce]
    /\ lastOp' = "rekey"
    /\ snapshot' = <<>>
    /\ rekeyed' = TRUE
    /\ UNCHANGED <<backend, endian, host, ty, status, guards, plain, origin, obfKey,
                   ctorKey, exposures, unwound, wipes>>
    /\ UNCHANGED hvars

\* Encrusted::rekey, the caller's generator panicking; the panic unwinds out
\* of rekey and the container stays with its owner.  One such panic per
\* container is explored.
RekeyUnwind ==
    /\ backend = "crypto"
    /\ status = "live"
    /\ ~unwound
    /\ BorrowableMut(guards)
    /\ \E stage \in {"key", "nonce"}, new_key \in Keys :
         LET c == rekey_unwind(data, keyMaterial, stage, new_key, endian)
         IN  /\ data' = c.data
             /\ keyMaterial' = c.km
    /\ lastOp' = "rekey_unwound"
    /\ snapshot' = <<>>
    /\ unwound' = TRUE
    /\ UNCHANGED <<backend, endian, host, ty, status, guards, plain, origin, obfKey,
                   ctorKey, requested, exposures, rekeyed, wipes>>
    /\ UNCHANGED hvars

\* Drop for Encrusted: the owner's scope ends (no borrow can be live).
DropEncrusted ==
    /\ status = "live"
    /\ BorrowableMut(guards)
    /\ LET c == IF backend = "fast"
                THEN Encrusted_drop_fast(data, keyMaterial, wipes)
                ELSE Encrusted_drop_crypto(data, keyMaterial, wipes)
       IN  /\ data' = c.data
           /\ keyMaterial' = c.km
           /\ wipes' = c.wipes
    /\ status' = "dropped"
    /\ lastOp' = "drop"
    /\ snapshot' = <<>>
    /\ UNCHANGED <<backend, endian, host, ty, guards, plain, origin, obfKey, ctorKey,
                   requested, exposures, rekeyed, unwound>>
    /\ UNCHANGED hvars

Next ==
    \/ Decrust
    \/ DerefMutWrite
    \/ DropDecrusted
    \/ Reseed
    \/ Rekey
    \/ RekeyUnwind
    \/ DropEncrusted

Spec == Init /\ [][Next]_vars

-----------------------------------------------------------------------------
(* A program that creates one Hashstring or Hashbytes and compares          *)
(* candidates with it.                                                      *)

\* A program that has built no Encrusted.
NoContainer ==
    /\ backend = "fast"
    /\ endian = "little"
    /\ host = "little"
    /\ ty = "none"
    /\ data = IntV(<<>>)
    /\ plain = IntV(<<>>)
    /\ keyMaterial = [seed |-> ZeroSeed]
    /\ obfKey = [seed |-> ZeroSeed]
    /\ ctorKey = [seed |-> ZeroSeed]
    /\ requested = [seed |-> ZeroSeed]
    /\ status = "none"
    /\ origin = "none"
    /\ lastOp = "none"
    /\ guards = 0
    /\ exposures = 0
    /\ rekeyed = FALSE
    /\ unwound = FALSE
    /\ wipes = NoWipes("fast")
    /\ snapshot = <<>>

\* The state after Hashstring::new(p, seed, sensitivity) or
\* Hashbytes::new(p, seed).
HashInit ==
    /\ NoContainer
    /\ \E seed \in HashSeeds :
         \/ \E p \in TextPatterns, sensitivity \in Sensitivities :
               /\ fingerprint = Hashstring_new(p, seed, sensitivity)
               /\ lowercase = Hashstring_new_lowercase_string(p, sensitivity)
               /\ pattern = p
         \/ \E p \in BytePatterns :
               /\ fingerprint = Hashbytes_new(p, seed)
               /\ lowercase = NoLowercase
               /\ pattern = p
    /\ other = <<>>
    /\ equal = FALSE
    /\ compares = 0

\* hashstring == candidate, for a &str candidate.
HashstringEq ==
    /\ fingerprint.type = "Hashstring"
    /\ compares < MaxCompares
    /\ \E candidate \in TextPatterns :
         /\ other' = candidate
         /\ equal' = Hashstring_eq(fingerprint, candidate)
         /\ lowercase' = Hashstring_eq_to_lowercase(fingerprint, candidate)
    /\ compares' = compares + 1
    /\ UNCHANGED <<fingerprint, pattern>>
    /\ UNCHANGED cvars

\* hashbytes == candidate, for a &[u8] candidate.
HashbytesEq ==
    /\ fingerprint.type = "Hashbytes"
    /\ compares < MaxCompares
    /\ \E candidate \in BytePatterns :
         /\ other' = candidate
         /\ equal' = Hashbytes_eq(fingerprint, candidate)
         /\ lowercase' = NoLowercase
    /\ compares' = compares + 1
    /\ UNCHANGED <<fingerprint, pattern>>
    /\ UNCHANGED cvars

HashNext ==
    \/ HashstringEq
    \/ HashbytesEq

HashSpec == HashInit /\ [][HashNext]_vars

-----------------------------------------------------------------------------
(* A program holding the container one call of encrust!, encrust_vec!,      *)
(* encrust_file_string! or encrust_file_bytes! expanded to: the macro runs  *)
(* on the build host, the program on its target.                            *)

\* The program after the expression the macro emitted has been evaluated;
\* no program is built when the macro emits compile_error!.
BuildInit ==
    /\ backend \in Backends
    /\ host \in Endians
    /\ endian \in Endians
    /\ \E i \in 1..Len(MacroInputs), km \in CtorKeyMaterials(backend) :
         LET out == generate_output_tokens(MacroInputs[i], backend, km, host)
         IN  /\ ty = MacroInputs[i].ty
             /\ obfKey = km
             /\ ctorKey = out.km
             /\ requested = out.km
             /\ keyMaterial = out.km
             /\ IF out.data.tok = "compile_error"
                THEN /\ status = "compile_error"
                     /\ data = IntV(<<>>)
                     /\ plain = IntV(<<>>)
                ELSE /\ status = "live"
                     /\ data = from_encrusted_data(Evaluated(out.data), out.km).data
                     /\ plain = Embedded(MacroInputs[i])
    /\ origin = "generate_output_tokens"
    /\ lastOp = origin
    /\ guards = 0
    /\ exposures = 0
    /\ rekeyed = FALSE
    /\ unwound = FALSE
    /\ wipes = NoWipes(backend)
    /\ snapshot = <<>>
    /\ NoFingerprint

\* The program exposes the container and lets the guard go.
BuildNext ==
    \/ Decrust
    \/ DropDecrusted

BuildSpec == BuildInit /\ [][BuildNext]_vars

-----------------------------------------------------------------------------
(* Properties                                                               *)

\* The caller of from_encrusted_data passed the key material the data was
\* obfuscated under (always so for Encrusted::new).
Matching == obfKey = ctorKey

RECURSIVE ByteCount(_)
\* Number of payload bytes of a value.
ByteCount(v) ==
    IF v.kind \in {"int", "text"} THEN Len(v.body)
    ELSE IF v.body = <<>> THEN 0
    ELSE ByteCount(Head(v.body)) + ByteCount([kind |-> v.kind, body |-> Tail(v.body)])

RECURSIVE ZeroShape(_)
\* The value of the same shape whose payload bytes are all 0; its toggle
\* is the keystream the toggle applies to a value of that shape.
ZeroShape(v) ==
    IF v.kind \in {"int", "text"}
    THEN [kind |-> v.kind, body |-> [i \in 1..Len(v.body) |-> 0]]
    ELSE [v EXCEPT !.body = [i \in 1..Len(v.body) |-> ZeroShape(v.body[i])]]

\* No rekey of any kind has been called on the container.
NeverRekeyed == ~rekeyed /\ ~unwound

\* C1: the guard returned by the first decrust of a container built by
\* Encrusted::new dereferences to the value the container was built from,
\* for every sample type, key material and backend.
C1_RoundTrip ==
    (origin = "new" /\ lastOp = "decrust" /\ exposures = 1 /\ NeverRekeyed)
        => deref(data) = plain

C1_Witness ==
    /\ origin = "new" /\ lastOp = "decrust" /\ exposures = 1 /\ NeverRekeyed
    /\ ty = "u128"
    /\ deref(data) = plain
    /\ Obfuscated(backend, plain, keyMaterial, endian) # plain

\* C2: whenever no guard is outstanding on a live container constructed with
\* matching key material, the stored data is the obfuscated form of the
\* container's plain value under its current key material.
C2_ObfuscatedAtRest ==
    (status = "live" /\ guards = 0 /\ Matching)
        => data = Obfuscated(backend, plain, keyMaterial, endian)

\* C3: whenever a guard goes away, on each exit path, the data is toggled in
\* place with a new engine built from the container's stored key material,
\* which stays as it is.
C3_ReleaseReobfuscates ==
    [][guards' < guards =>
          /\ lastOp' \in ExitPaths
          /\ keyMaterial' = keyMaterial
          /\ data' = toggle_encrust(data, NewEngine(backend, keyMaterial), endian).val]_vars

C3_Witness ==
    /\ lastOp = "release_unwind"
    /\ guards = 0
    /\ Matching /\ NeverRekeyed
    /\ data = Obfuscated(backend, plain, keyMaterial, endian)
    /\ data # plain

\* C4: at most one guard is outstanding on a container, and while one is,
\* no second decrust, no rekey and no drop of the container takes effect.
C4_ExclusiveGuard ==
    /\ [](guards <= 1)
    /\ [][guards = 1 =>
            /\ guards' <= 1
            /\ keyMaterial' = keyMaterial
            /\ status' = status
            /\ exposures' = exposures]_vars

C4_Witness ==
    /\ guards = 1
    /\ exposures = 2
    /\ deref(data) = plain

\* C5: after any sequence of decrust/release cycles, writes through a guard
\* and rekeys, the next decrust exposes the most recent plain value.
C5_ExposesLatest ==
    (lastOp = "decrust" /\ Matching) => deref(data) = plain

\* C6: once the container is dropped, its data and every component of its
\* key material have been overwritten with the wipe pattern, whichever
\* constructor built it.
C6_WipedOnDrop ==
    status = "dropped" =>
        /\ data = zeroize(data)
        /\ IF backend = "fast"
           THEN keyMaterial.seed = ZeroSeed
           ELSE keyMaterial.key = ZeroKey /\ keyMaterial.nonce = ZeroNonce

\* C7: dropping the container wipes the data exactly once and each
\* component of the key material exactly once.
C7_WipedOnce ==
    status = "dropped" => \A f \in DOMAIN wipes : wipes[f] = 1

\* C8 (as stated): for every non-empty payload and every key material the
\* stored bytes differ from the plaintext before the first exposure and
\* after the guard has been released.
C8_Original ==
    (status = "live" /\ guards = 0 /\ origin = "new" /\ NeverRekeyed
        /\ ByteCount(plain) > 0)
        => data # plain

\* C8 (amended): the same, for key material whose keystream bytes applied
\* to the payload are not all zero.
C8_DiffersUnlessZeroKeystream ==
    (status = "live" /\ guards = 0 /\ origin = "new" /\ NeverRekeyed
        /\ Obfuscated(backend, ZeroShape(plain), keyMaterial, endian) # ZeroShape(plain))
        => data # plain

C8_Witness ==
    /\ status = "live" /\ guards = 0 /\ origin = "new" /\ NeverRekeyed
    /\ lastOp \in ExitPaths
    /\ ty = "String"
    /\ ByteCount(plain) > 0
    /\ data # plain

\* C9: after a completed reseed / rekey the stored key material is the new
\* one, the data is the plain value obfuscated under it, and the next
\* decrust exposes the plain value.
C9_RekeyPreservesValue ==
    (rekeyed /\ ~unwound /\ Matching) =>
        /\ lastOp = "rekey" =>
              /\ keyMaterial = requested
              /\ data = Obfuscated(backend, plain, requested, endian)
        /\ lastOp = "decrust" => deref(data) = plain

C9_Witness ==
    /\ rekeyed /\ ~unwound /\ origin = "new"
    /\ lastOp = "decrust" /\ exposures = 1
    /\ keyMaterial # ctorKey
    /\ keyMaterial = requested
    /\ deref(data) = plain
    /\ Obfuscated(backend, plain, keyMaterial, endian)
         # Obfuscated(backend, plain, ctorKey, endian)

\* C10: a rekey left by a panic does not leave the container holding
\* plaintext with no guard outstanding, and a later decrust exposes the
\* plain value.
C10_RekeyInterruptSafe ==
    (unwound /\ status = "live" /\ Matching) =>
        /\ guards = 0 => data = Obfuscated(backend, plain, keyMaterial, endian)
        /\ lastOp = "decrust" => deref(data) = plain

\* C11 (as stated): whenever a reseed / rekey installs key material that
\* differs from the old one on a container with a non-empty payload, the
\* bytes stored afterwards differ from the bytes stored before.
C11_Original ==
    [][(lastOp' = "rekey" /\ keyMaterial' # keyMaterial /\ ByteCount(data) > 0)
          => data' # data]_vars

\* C11 (amended): the same, for old and new key material whose keystreams
\* differ on the bytes applied to the payload.
C11_DiffersWhenKeystreamsDiffer ==
    [][(lastOp' = "rekey"
          /\ Obfuscated(backend, ZeroShape(data), keyMaterial', endian)
               # Obfuscated(backend, ZeroShape(data), keyMaterial, endian))
          => data' # data]_vars

C11_Witness ==
    /\ lastOp = "rekey" /\ ~unwound /\ origin = "new"
    /\ keyMaterial # ctorKey
    /\ ByteCount(plain) > 0
    /\ data = Obfuscated(backend, plain, keyMaterial, endian)
    /\ data # Obfuscated(backend, plain, ctorKey, endian)

\* C12: a completed reseed / rekey applies a wipe step (a zeroize call) to
\* every component of the key material it replaces.
C12_RekeyWipesOldKey ==
    [][lastOp' = "rekey" =>
          \A f \in DOMAIN keyMaterial : wipes'[f] > wipes[f]]_vars

\* C13: the data a live container holds at rest is byte for byte the data
\* of a second container built by Encrusted::new from the same plain value
\* and key material, whichever constructor built the first and whatever
\* exposures, writes and completed rekeys it has gone through; and the
\* stored form recorded in tests::ensure_encrust_has_not_changed is the one
\* Encrusted::new gives for TEST_STRING under the recorded seed.
C13_Deterministic ==
    /\ (status = "live" /\ guards = 0 /\ Matching /\ ~unwound)
          => data = Encrusted_new(backend, plain, keyMaterial, endian).data
    /\ Encrusted_new("fast", TEST_STRING, [seed |-> PinnedSeed], "little").data
          = PinnedData

C13_Witness ==
    /\ status = "live" /\ guards = 0 /\ Matching /\ ~unwound
    /\ lastOp \in ExitPaths /\ exposures = 2 /\ rekeyed
    /\ keyMaterial # ctorKey
    /\ data = Encrusted_new(backend, plain, keyMaterial, endian).data
    /\ data # plain

\* C14: from_encrusted_data stores the data and the key material exactly as
\* passed, with no toggle; and a container it builds from data obfuscated
\* under the key material passed behaves as the one Encrusted::new builds
\* from the plain value: it holds the same bytes at rest before and after an
\* exposure, and a decrust exposes the plain value.
C14_TrustedAsConstructed ==
    origin = "from_encrusted_data" =>
        /\ lastOp = origin =>
              /\ data = Obfuscated(backend, plain, obfKey, endian)
              /\ keyMaterial = ctorKey
        /\ (Matching /\ NeverRekeyed) =>
              /\ (status = "live" /\ guards = 0) =>
                    data = Encrusted_new(backend, plain, keyMaterial, endian).data
              /\ lastOp = "decrust" => deref(data) = plain

C14_Witness ==
    /\ origin = "from_encrusted_data" /\ Matching /\ NeverRekeyed
    /\ lastOp = "release_scope_end" /\ exposures = 1
    /\ ty = "String"
    /\ data = Encrusted_new(backend, plain, keyMaterial, endian).data
    /\ data # plain

ToggleTwiceFresh(b, v, km, e) ==
    toggle_encrust(toggle_encrust(v, NewEngine(b, km), e).val, NewEngine(b, km), e).val

\* A value toggled twice with one engine for km, the second toggle going on
\* where the first left the engine (derive_named_ne toggles `named` this way
\* before handing it to Encrusted::new).
ToggleTwiceContinuing(b, v, km, e) ==
    LET first == toggle_encrust(v, NewEngine(b, km), e)
    IN  toggle_encrust(first.val, first.eng, e).val

\* C16: toggling the data of a container twice, each time with a new engine
\* for its key material, gives the same data back, for every type; with one
\* continuing engine it does not for some value; and Encrusted::new, decrust,
\* the release of the guard and reseed / rekey each toggle with an engine
\* newly built from the key material.
C16_ToggleInvolution ==
    /\ [](status = "live" =>
            /\ ToggleTwiceFresh(backend, data, keyMaterial, endian) = data
            /\ lastOp = origin =>
                  \E i \in 1..Len(Samples) :
                     ToggleTwiceContinuing(backend, Samples[i].val, keyMaterial, endian)
                        # Samples[i].val
            /\ lastOp = "new" =>
                  data = toggle_encrust(plain, NewEngine(backend, keyMaterial), endian).val)
    /\ [][/\ lastOp' \in {"decrust", "rekey_unwound"} \cup ExitPaths =>
                data' = toggle_encrust(data, NewEngine(backend, keyMaterial), endian).val
          /\ lastOp' = "rekey" =>
                data' = toggle_encrust(
                            toggle_encrust(data, NewEngine(backend, keyMaterial), endian).val,
                            NewEngine(backend, keyMaterial'), endian).val]_vars

C16_Witness ==
    /\ lastOp \in ExitPaths /\ rekeyed /\ ~unwound /\ Matching
    /\ ty = "Named"
    /\ ToggleTwiceFresh(backend, data, keyMaterial, endian) = data
    /\ ToggleTwiceContinuing(backend, data, keyMaterial, endian) # data
    /\ Obfuscated(backend, data, keyMaterial, endian) = plain

\* The value is of a type with derive(Encrustable).
Derived(v) == v.kind \in {"struct", "enum"}

Blocks(n, blk) == blk * ((n + blk - 1) \div blk)

\* The position of the engine after one toggle of v from a new engine.
Consumed(b, v, km, e) == toggle_encrust(v, NewEngine(b, km), e).eng.pos

RECURSIVE Draws(_, _)
\* The number of keystream bytes the toggle of v draws: whole blocks per
\* leaf on the fast backend, one byte per payload byte on the
\* cryptographic one; nothing for a value without leaves.
Draws(b, v) ==
    CASE v.kind = "int" -> IF b = "fast" THEN Blocks(Len(v.body), 8) ELSE Len(v.body)
      [] v.kind = "text" -> IF b = "fast" THEN Blocks(Len(v.body), 16) ELSE Len(v.body)
      [] OTHER ->
           IF v.body = <<>> THEN 0
           ELSE Draws(b, Head(v.body)) + Draws(b, [v EXCEPT !.body = Tail(v.body)])

RECURSIVE InOrder(_, _, _)
\* v toggled in the order C26 states: element or field i is toggled from
\* the position the engine has after the elements or fields 1..i-1, in
\* ascending order, whatever the kind of the composite, which stays as it
\* is (and with it the active variant).
InOrder(v, eng, e) ==
    IF v.kind \in {"int", "text"}
    THEN toggle_encrust(v, eng, e).val
    ELSE [v EXCEPT !.body =
            [i \in 1..Len(v.body) |->
               InOrder(v.body[i],
                       [eng EXCEPT !.pos = @ + Draws(eng.backend,
                                                     [v EXCEPT !.body = SubSeq(v.body, 1, i - 1)])],
                       e)]]

\* C26: the toggle of an array, a Vec, a struct or the active variant of an
\* enum toggles the elements or fields in ascending order on one engine; a
\* unit variant draws no keystream; and the pass that obfuscates the plain
\* value and the pass that de-obfuscates the stored data meet the same
\* positions of the keystream, the second giving the plain value back.
C26_VisitationOrder ==
    (status = "live" /\ guards = 0 /\ Matching /\ ~unwound
        /\ plain.kind \notin {"int", "text"}) =>
        LET eng == NewEngine(backend, keyMaterial)
        IN  /\ toggle_encrust(plain, eng, endian).val = InOrder(plain, eng, endian)
            /\ toggle_encrust(data, eng, endian).val = InOrder(data, eng, endian)
            /\ data = InOrder(plain, eng, endian)
            /\ plain = InOrder(data, eng, endian)
            /\ Draws(backend, data) = Draws(backend, plain)
            /\ Consumed(backend, plain, keyMaterial, endian) = Draws(backend, plain)
            /\ (plain.kind = "enum" /\ plain.body = <<>>) =>
                  /\ Consumed(backend, plain, keyMaterial, endian) = 0
                  /\ data = plain

C26_Witness ==
    /\ status = "live" /\ guards = 0 /\ Matching /\ ~unwound
    /\ ty = "Named"
    /\ lastOp = "release_early_return"
    /\ data = InOrder(plain, NewEngine(backend, keyMaterial), endian)
    /\ plain = InOrder(data, NewEngine(backend, keyMaterial), endian)
    /\ \A i \in 1..Len(plain.body) : data.body[i] # plain.body[i]

\* C27: when a guard has gone away without the value having been written
\* through it, the data stored is byte for byte the data that was stored
\* when the guard was handed out, on every exit path, whichever constructor
\* built the container and whatever key material it holds (no reseed or
\* rekey can act while the guard is live).
C27_ExposeReleaseIdentity ==
    (lastOp \in ExitPaths /\ snapshot # <<>>) =>
        /\ guards = 0
        /\ data = snapshot[1]

C27_Witness ==
    /\ lastOp = "release_unwind" /\ snapshot # <<>>
    /\ exposures = 2
    /\ ~Matching /\ rekeyed
    /\ ByteCount(data) > 4
    /\ data = snapshot[1]
    /\ data # Decrusted_new(backend, data, keyMaterial, endian)

\* C28: a container holds the key material its constructor was given until
\* a reseed / rekey acts on it (or Drop wipes it): decrust, a write through
\* the guard and the release of the guard on each exit path leave the key
\* material as it is, so that the engine the release builds is the one
\* decrust built.
C28_KeyChangedOnlyByRekey ==
    /\ [](lastOp = origin => keyMaterial = ctorKey)
    /\ [][/\ keyMaterial' # keyMaterial => lastOp' \in {"rekey", "rekey_unwound", "drop"}
          /\ lastOp' \in {"decrust", "write"} \cup ExitPaths =>
                /\ keyMaterial' = keyMaterial
                /\ NewEngine(backend, keyMaterial') = NewEngine(backend, keyMaterial)]_vars

C28_Witness ==
    /\ lastOp = "release_scope_end" /\ snapshot = <<>>
    /\ exposures = 2
    /\ NeverRekeyed
    /\ origin = "from_encrusted_data" /\ Matching
    /\ keyMaterial = ctorKey
    /\ keyMaterial # TestKeyMaterial(backend)

\* C29: Drop for Encrusted runs only when no guard is live, the last
\* operation before it being none that leaves a guard live (after a decrust
\* the guard has gone away, on whichever exit path, before the container
\* does); a dropped container has no guard, and nothing acts on it again:
\* its data is never toggled after zeroize.
C29_ReleaseBeforeDrop ==
    /\ [](status = "dropped" => guards = 0)
    /\ [][/\ lastOp' = "drop" =>
                /\ status = "live" /\ status' = "dropped"
                /\ guards = 0
                /\ lastOp \notin {"decrust", "write"}
                /\ exposures > 0 => \/ lastOp \in ExitPaths
                                    \/ rekeyed \/ unwound
          /\ status = "dropped" =>
                /\ data' = data
                /\ status' = status
                /\ guards' = guards]_vars

C29_Witness ==
    /\ status = "dropped" /\ lastOp = "drop"
    /\ exposures = 2
    /\ guards = 0
    /\ NeverRekeyed
    /\ ty = "Vec<u16>"
    /\ data = zeroize(plain)

\* The shape of a value: its kinds, the width of its integers, the length
\* of its text buffers, the number of its elements and its active variant.
Shape(v) == ZeroShape(v)

\* C30: the data of a live container has the shape of its plain value,
\* however many toggles it has gone through and under whichever key
\* material, and one more toggle keeps the shape; so the toggle of the data
\* draws as many keystream bytes, for the whole and for each element or
\* field, as the toggle of the plain value.
C30_ShapePreserved ==
    status = "live" =>
        LET toggled == toggle_encrust(data, NewEngine(backend, keyMaterial), endian)
        IN  /\ Shape(data) = Shape(plain)
            /\ Shape(toggled.val) = Shape(data)
            /\ toggled.eng.pos = Consumed(backend, plain, keyMaterial, endian)
            /\ Draws(backend, data) = Draws(backend, plain)
            /\ plain.kind \notin {"int", "text"} =>
                  /\ Len(data.body) = Len(plain.body)
                  /\ \A i \in 1..Len(plain.body) :
                        Draws(backend, data.body[i]) = Draws(backend, plain.body[i])
            /\ plain.kind = "enum" => data.variant = plain.variant

C30_Witness ==
    /\ status = "live" /\ guards = 0
    /\ ~Matching
    /\ ty = "NamedOrTuple" /\ plain.variant = "Named"
    /\ lastOp \in ExitPaths
    /\ data.variant = "Named"
    /\ Shape(data) = Shape(plain)
    /\ data # plain
    /\ data # Obfuscated(backend, plain, keyMaterial, endian)

-----------------------------------------------------------------------------
(* Properties of Hashstring and Hashbytes (under HashSpec)                  *)

\* C18: a Hashstring created from (p, seed, sensitivity), for every
\* pattern, seed and either sensitivity, compares equal to p, and a
\* Hashbytes created from (bytes, seed) compares equal to the same bytes;
\* so do the Hashstring and Hashbytes rebuilt from the value and seed
\* recorded in tests::ensure_hashstring_bytes_has_not_changed.
C18_SelfMatch ==
    /\ (compares > 0 /\ other = pattern) => equal
    /\ \A sensitivity \in Sensitivities :
          Hashstring_eq(Hashstring_new_from_raw_value("10002744355855325072",
                            "15748439925883409278", sensitivity),
                        A_LOWERCASE_STRING)
    /\ Hashbytes_eq(Hashbytes_new_from_raw_value("10002744355855325072",
                        "15748439925883409278"),
                    A_LOWERCASE_STRING)

C18_Witness ==
    /\ compares = 2 /\ other = pattern /\ equal
    /\ fingerprint.type = "Hashstring"
    /\ fingerprint.sensitivity = "CaseInsensitive"
    /\ pattern = A_STRING

\* C19: a case-insensitive Hashstring of p compares equal to every
\* candidate whose lowercase folding is that of p, for every seed.
C19_CaseInsensitiveMatch ==
    (/\ compares > 0
     /\ fingerprint.type = "Hashstring"
     /\ fingerprint.sensitivity = "CaseInsensitive"
     /\ to_lowercase(other) = to_lowercase(pattern))
        => equal

C19_Witness ==
    /\ compares > 0
    /\ fingerprint.type = "Hashstring"
    /\ fingerprint.sensitivity = "CaseInsensitive"
    /\ pattern = FIND_ME /\ other = FIND_ME_MIXED
    /\ to_lowercase(other) = to_lowercase(pattern)
    /\ to_lowercase(pattern) # pattern
    /\ equal

\* The fingerprint at hand compares the bytes of the candidate as they are.
ComparesBytes ==
    \/ fingerprint.type = "Hashbytes"
    \/ fingerprint.type = "Hashstring" /\ fingerprint.sensitivity = "CaseSensitive"

\* One of the two 64-bit words rapidhash v3 multiplies for an input of 8 to
\* 16 bytes is zero: the first 8 bytes are those of RapidSecret1, or the
\* last 8 bytes are those of RapidSeedWord.  The product is then zero
\* whatever the other word, and the hash is a function of the length only.
ZeroProduct(bytes, seed) ==
    /\ Len(bytes) \in 8..16
    /\ \/ SubSeq(bytes, 1, 8) = RapidSecret1
       \/ SubSeq(bytes, Len(bytes) - 7, Len(bytes)) = RapidSeedWord(seed, Len(bytes))

\* C20 (as stated): a case-sensitive Hashstring or a Hashbytes of p
\* compares not-equal to every candidate whose bytes differ from those of p.
C20_Original ==
    (compares > 0 /\ ComparesBytes /\ other # pattern) => ~equal

\* C20 (amended): the same, unless rapidhash multiplies by a zero word for
\* both p and the candidate, in which case the two hashes collide.
C20_RejectsUnlessCollision ==
    (/\ compares > 0 /\ ComparesBytes /\ other # pattern
     /\ ~(ZeroProduct(pattern, fingerprint.seed) /\ ZeroProduct(other, fingerprint.seed)))
        => ~equal

C20_Witness ==
    /\ compares > 0
    /\ fingerprint.type = "Hashstring"
    /\ fingerprint.sensitivity = "CaseSensitive"
    /\ pattern = A_STRING /\ other = A_LOWERCASE_STRING
    /\ ~equal

\* The fields of struct Hashstring and of struct Hashbytes (type is the
\* name of the struct).
FingerprintFields(type) ==
    IF type = "Hashstring"
    THEN {"type", "value", "seed", "sensitivity"}
    ELSE {"type", "value", "seed"}

\* The fingerprint as new built it from the pattern.
AsCreated ==
    IF fingerprint.type = "Hashstring"
    THEN Hashstring_new(pattern, fingerprint.seed, fingerprint.sensitivity)
    ELSE Hashbytes_new(pattern, fingerprint.seed)

\* C21: a Hashstring holds the hash value, the seed and the sensitivity, a
\* Hashbytes the hash value and the seed, and neither a field for the
\* pattern; the fields stay as new set them; a comparison leaves the
\* fingerprint as it is, its result is a function of the fingerprint and
\* the candidate, and comparing the same candidate again gives the same
\* result.
C21_FingerprintImmutable ==
    /\ [](/\ DOMAIN fingerprint = FingerprintFields(fingerprint.type)
          /\ fingerprint.seed \in HashSeeds
          /\ fingerprint.value = AsCreated.value
          /\ fingerprint.seed = AsCreated.seed
          /\ fingerprint.type = "Hashstring" =>
                /\ fingerprint.sensitivity \in Sensitivities
                /\ compares > 0 => equal = Hashstring_eq(AsCreated, other)
          /\ (fingerprint.type = "Hashbytes" /\ compares > 0) =>
                equal = Hashbytes_eq(AsCreated, other))
    /\ [][/\ fingerprint' = fingerprint
          /\ (compares > 0 /\ other' = other) => equal' = equal]_vars

C21_Witness ==
    /\ compares = 2
    /\ fingerprint.type = "Hashbytes"
    /\ DOMAIN fingerprint = {"type", "value", "seed"}
    /\ pattern = SECRET_THEN_0 /\ other = SECRET_THEN_1
    /\ equal

\* C22: whenever a lowercase copy of a text has been made to compute a
\* case-insensitive hash, at the creation of the Hashstring or in a
\* comparison with it, the copy has been overwritten by zeroize by the time
\* the operation returns.
C22_LowercaseWiped ==
    lowercase.allocated => lowercase.buffer = zeroize(TextV(lowercase.buffer)).body

-----------------------------------------------------------------------------
(* Properties of the build-time generator (under BuildSpec)                 *)

\* C23: the container a macro expands to holds the key material the
\* generator obfuscated the input with, and each decrust of it exposes the
\* literal or the file's content as it was given to the macro, for every
\* literal tree, file, backend and key material, whatever the platform of
\* the build and that of the program.
C23_EmbeddingRoundTrips ==
    (origin = "generate_output_tokens" /\ status = "live") =>
        /\ keyMaterial = obfKey
        /\ lastOp = "decrust" => deref(data) = plain

RECURSIVE FastLayout(_, _, _)
\* The layout C24 states, for a value toggled from position pos of stream:
\* a leaf's bytes (an integer's taken least significant first) are XORed
\* with the stream bytes that follow pos, and the position advances by
\* whole blocks of 8 for an integer and of 16 for text; elements follow one
\* another.
FastLayout(v, pos, stream) ==
    CASE v.kind = "int" ->
           LET n == Len(v.body)
           IN  [val |-> IntV([i \in 1..n |-> Xor(v.body[i], stream[pos + n + 1 - i])]),
                pos |-> pos + Blocks(n, 8)]
      [] v.kind = "text" ->
           LET n == Len(v.body)
           IN  [val |-> TextV([i \in 1..n |-> Xor(v.body[i], stream[pos + i])]),
                pos |-> pos + Blocks(n, 16)]
      [] OTHER ->
           IF v.body = <<>>
           THEN [val |-> v, pos |-> pos]
           ELSE LET first == FastLayout(Head(v.body), pos, stream)
                    rest  == FastLayout([v EXCEPT !.body = Tail(v.body)], first.pos, stream)
                IN  [val |-> [v EXCEPT !.body = <<first.val>> \o rest.val.body],
                     pos |-> rest.pos]

\* C24: on the fast backend the toggle of the container's value has the
\* layout FastLayout gives, byte for byte and in the keystream consumed; an
\* integer of 8, 16, 32 or 64 bits consumes 8 keystream bytes and one of 128
\* bits 16; text of 1 to 16 bytes consumes 16, of 17 bytes 32, and empty
\* text none.
C24_FastLayout ==
    /\ (backend = "fast" /\ status = "live") =>
          LET r   == toggle_encrust(plain, NewEngine("fast", keyMaterial), endian)
              ref == FastLayout(plain, 0, SmallRngBytes(keyMaterial.seed))
          IN  /\ r.val = ref.val
              /\ r.eng.pos = ref.pos
              /\ guards = 0 => data = ref.val
    /\ \A km \in KeyMaterials("fast") :
          /\ \A w \in {1, 2, 4, 8} :
                Consumed("fast", IntV([i \in 1..w |-> 7]), km, "little") = 8
          /\ Consumed("fast", IntV([i \in 1..16 |-> 7]), km, "little") = 16
          /\ Consumed("fast", TextV(<<>>), km, "little") = 0
          /\ \A n \in 1..16 :
                Consumed("fast", TextV([i \in 1..n |-> 65]), km, "little") = 16
          /\ Consumed("fast", TextV([i \in 1..17 |-> 65]), km, "little") = 32

C24_Witness ==
    /\ backend = "fast" /\ status = "live"
    /\ ty = "[[u8; 3]; 2]"
    /\ lastOp \in ExitPaths
    /\ Consumed("fast", plain, keyMaterial, endian) = 48
    /\ data = FastLayout(plain, 0, SmallRngBytes(keyMaterial.seed)).val
    /\ data # plain

RECURSIVE Flatten(_, _)
\* The bytes of the leaves of a value, in the order toggle_encrust visits
\* them, an integer's in the byte order of the platform.
Flatten(v, e) ==
    CASE v.kind = "int" -> to_ne_bytes(v, e)
      [] v.kind = "text" -> v.body
      [] OTHER ->
           IF v.body = <<>> THEN <<>>
           ELSE Flatten(Head(v.body), e) \o Flatten([v EXCEPT !.body = Tail(v.body)], e)

RECURSIVE TextTree(_)
\* The value is a String, or arrays or vecs of Strings.
TextTree(v) ==
    CASE v.kind = "text" -> TRUE
      [] v.kind = "int" -> FALSE
      [] OTHER -> \A i \in 1..Len(v.body) : TextTree(v.body[i])

\* C25: on the cryptographic backend the bytes of the leaves of the toggled
\* value are those of the value XORed with the keystream's first bytes, one
\* keystream byte per payload byte, and the engine has advanced by that
\* many bytes; the generator's toggle of a String's bytes as a Vec<u8>
\* gives the bytes the String's own toggle gives, so that the container
\* emitted for text holds the text obfuscated as Encrusted::new would and
\* a decrust exposes the text.
C25_CryptoLayout ==
    (backend = "crypto" /\ status = "live") =>
        LET start  == NewEngine("crypto", keyMaterial)
            stream == XChaCha8Bytes(keyMaterial.key, keyMaterial.nonce)
            r      == toggle_encrust(plain, start, endian)
            bytes  == Flatten(plain, endian)
        IN  /\ Flatten(r.val, endian) = [i \in 1..Len(bytes) |-> Xor(bytes[i], stream[i])]
            /\ r.eng.pos = Len(bytes)
            /\ plain.kind = "text" =>
                  vec_bytes(toggle_encrust(as_bytes_vec(plain.body), start, host).val)
                     = toggle_string_crypto(plain, start).val.body
            /\ TextTree(plain) =>
                  /\ guards = 0 => data = Encrusted_new("crypto", plain, keyMaterial, endian).data
                  /\ lastOp = "decrust" => deref(data) = plain

C25_Witness ==
    /\ backend = "crypto" /\ status = "live"
    /\ ty = "[String; 2]"
    /\ host # endian
    /\ lastOp = "decrust"
    /\ deref(data) = plain
    /\ Consumed("crypto", plain, keyMaterial, endian) = 4
    /\ Obfuscated("crypto", plain, keyMaterial, endian).body[1]
         # Obfuscated("crypto", plain, keyMaterial, endian).body[2]

====
